---- MODULE Spec2Model ----
(***************************************************************************)
(* KoSpeech decoding loop: kospeech/decode/search.py.                      *)
(*                                                                         *)
(* GreedySearch and BeamSearch strategy objects, one model object, the     *)
(* batch queue filled by a producer, and the frame of the running search   *)
(* call.  History variables (taken, inferCalls, metricCalls, logs,         *)
(* installs) record what a call did, in order.                             *)
(***************************************************************************)
EXTENDS Integers, Sequences, FiniteSets, TLC

\* ------------------------------------------------------------------ bounds
MaxBatches == 2      \* non-sentinel batches the producers enqueue in a run
MaxSamples == 2      \* samples (rows) of one batch
MaxCalls == 2        \* search calls in a run
MaxPrint == 2        \* largest print_every
MaxK == 2            \* largest beam width
MaxQueue == 2        \* capacity of the queue
MaxLen == 3          \* longest sequence a decoder produces
MaxScore == 3        \* log-probabilities of a step are -MaxScore..-1

\* --------------------------------------------------------------- constants
Strategies == {"greedy", "beam"}
MetricArgs == {"char", "word", "sent"}
ModTypes == {"ListenAttendSpell", "SpeechTransformer", "DeepSpeech2", "Other"}
Devices == {"cuda"}
SOS == 1
EOS == 4
Labels == {2, 3}
HypRows == {<<l>> : l \in Labels}
MetricVals == {0, 1}
Tokens == Labels \cup {EOS}     \* what a decoder emits
Prev == Labels \cup {SOS}       \* what a step is conditioned on
NoErr == "none"

\* the vocabulary: label id -> token text
Vocab == <<"<sos>", "a", "b", "<eos>">>
VocabSize == Len(Vocab)

\* vocab.label_to_string(labels)
LabelToString(labels) == [i \in 1..Len(labels) |-> Vocab[labels[i]]]

\* ------------------------------------------------------------------- state
VARIABLES
    constructed,     \* strategy -> "none" | "ok" | "failed"
    metricArg,       \* strategy -> the metric kind its constructor got
    metric,          \* strategy -> self.metric
    beamK,           \* self.k of the BeamSearch object
    target_list,     \* strategy -> self.target_list
    predict_list,    \* strategy -> self.predict_list
    model,           \* the model object handed to search
    queue,           \* the queue handed to search
    produced,        \* non-sentinel batches enqueued so far
    samples,         \* utterances enqueued so far
    sentinels,       \* sentinel batches enqueued so far
    calls,           \* search calls started so far
    pc,              \* position of the running call
    self,            \* the strategy the call runs on
    print_every,     \* argument
    device,          \* argument
    architecture,    \* local of search
    cer,             \* local of search
    total_sent_num,  \* local of search
    timestep,        \* local of search
    err,             \* exception the call ended with
    ret,             \* value the call returned
    dequeued,        \* utterances taken from the queue so far, over all calls
    entry,           \* what the call found when it started
    taken,           \* batches the call took from the queue, in order
    inferCalls,      \* inference calls of the call, in order
    metricCalls,     \* metric calls of the call, in order
    logs,            \* progress log entries of the call, in order
    installs,        \* set_decoder calls of the call, in order
    beamCalls,       \* BeamSearch.search calls entered so far
    saved,           \* the csv file save_result wrote last
    scores,          \* decoding: the model's step log-probabilities on one input
    adapter,         \* decoding: the decoder in use, as the adapters around the original
    beam,            \* decoding: the candidates of the top-k adapter
    hypothesis,      \* decoding: the token sequence emitted
    dpc              \* decoding: "idle" | "decoding" | "emitted"

strategyVars == <<constructed, metricArg, metric, beamK, target_list, predict_list>>
frameVars == <<pc, self, print_every, device, architecture, cer,
               total_sent_num, timestep, err, ret>>
historyVars == <<dequeued, entry, taken, inferCalls, metricCalls, logs, installs,
                 beamCalls>>
searchVars == <<strategyVars, model, queue, produced, samples, sentinels, calls,
                frameVars, historyVars, saved>>
decodeVars == <<scores, adapter, beam, hypothesis, dpc>>
vars == <<searchVars, decodeVars>>

\* ----------------------------------------------------------------- batches
\* the data set: utterance j has feature j and the transcript <<SOS, label>>
TargetOf(j) == <<SOS, 2 + (j % 2)>>

\* the batch of the n utterances that follow utterance `from`:
\* (inputs, targets, input_lengths, target_lengths)
Batch(from, n) ==
    [inputs |-> [i \in 1..n |-> from + i],
     targets |-> [i \in 1..n |-> TargetOf(from + i)],
     input_lengths |-> [i \in 1..n |-> 1],
     target_lengths |-> [i \in 1..n |-> Len(TargetOf(from + i))]]

\* the end-of-stream batch: no inputs, whatever the other fields hold
Sentinels ==
    {[inputs |-> <<>>, targets |-> rows, input_lengths |-> <<>>,
      target_lengths |-> [i \in 1..Len(rows) |-> Len(rows[i])]] :
        rows \in {<<>>, <<(<<SOS, 2>>)>>}}

\* mutant: a batch of a single input is taken for the end of the stream too
IsSentinelUpToOne(b) == Len(b.inputs) <= 1

\* inputs.shape[0] == 0
IsSentinel(b) == Len(b.inputs) = 0

\* targets[:, 1:]
DropFirst(rows) == [i \in 1..Len(rows) |-> Tail(rows[i])]

\* ------------------------------------------------------------------- model
Recognized == {"ListenAttendSpell", "SpeechTransformer", "DeepSpeech2"}

\* the object the type tests look at: model.module under DataParallel
ArchitectureOf(type) ==
    CASE type = "ListenAttendSpell" -> "las"
      [] type = "SpeechTransformer" -> "transformer"
      [] type = "DeepSpeech2" -> "deepspeech2"
      [] OTHER -> "unsupported"

\* a recognized model exposes decoder and set_decoder; any other object may not
HasDecoder(m) == m.type \in Recognized \/ m.hasDecoder

\* type(model)
TypeOf(m) == IF m.wrapped THEN "DataParallel" ELSE m.type

\* the architecture tag search selects
Identify(m) ==
    IF TypeOf(m) = "DataParallel"
    THEN ArchitectureOf(m.type)
    ELSE ArchitectureOf(TypeOf(m))

\* mutant: the adapter is installed into the object handed in, wrapper or not
SetDecoderTargetNoUnwrap(m) == "model"

\* the object BeamSearch.search installs the adapter into
SetDecoderTarget(m) == IF TypeOf(m) = "DataParallel" THEN "model.module" ELSE "model"

\* mutant: the adapter is built one candidate wider than self.k
TopKDecoderWider(decoder, k) == <<k + 1>> \o decoder

\* TopKDecoder(decoder, k): the adapters around the original decoder, outermost first
TopKDecoder(decoder, k) == <<k>> \o decoder

\* the object whose inference method the loop calls
InferenceReceiver(m) == "model"

\* whether object `obj` of the call is the module that decodes
IsUnderlying(m, obj) == obj = (IF m.wrapped THEN "model.module" ELSE "model")

\* nn.DataParallel forwards no attribute to the module it wraps: it has no
\* `inference`; the module has
HasInference(m, obj) == IsUnderlying(m, obj)

\* the arguments of model.inference under each architecture tag
InferenceArgs(arch, b, dev) ==
    CASE arch = "las" ->
           [inputs |-> b.inputs, input_lengths |-> b.input_lengths,
            device |-> dev, blank_label |-> -1]
      [] arch = "transformer" ->
           [inputs |-> b.inputs, input_lengths |-> b.input_lengths,
            device |-> "none", blank_label |-> -1]
      [] arch = "deepspeech2" ->
           [inputs |-> b.inputs, input_lengths |-> b.input_lengths,
            device |-> "none", blank_label |-> VocabSize]

\* ------------------------------------------------------------ construction
\* mutant: an unknown kind falls back to the character error rate
MetricForDefaultChar(kind) ==
    CASE kind = "word" -> "WordErrorRate"
      [] OTHER -> "CharacterErrorRate"

\* the metric __init__ selects, or the error it raises
MetricFor(kind) ==
    CASE kind = "char" -> "CharacterErrorRate"
      [] kind = "word" -> "WordErrorRate"
      [] OTHER -> "ValueError"

Construct(s, kind) ==
    /\ target_list' = [target_list EXCEPT ![s] = <<>>]
    /\ predict_list' = [predict_list EXCEPT ![s] = <<>>]
    /\ metricArg' = [metricArg EXCEPT ![s] = kind]
    /\ IF MetricFor(kind) = "ValueError"
       THEN /\ constructed' = [constructed EXCEPT ![s] = "failed"]
            /\ metric' = metric
       ELSE /\ constructed' = [constructed EXCEPT ![s] = "ok"]
            /\ metric' = [metric EXCEPT ![s] = MetricFor(kind)]

\* GreedySearch(vocab, metric)
NewGreedy ==
    /\ pc = "idle"
    /\ constructed["greedy"] = "none"
    /\ \E kind \in MetricArgs : Construct("greedy", kind)
    /\ UNCHANGED <<beamK, model, queue, produced, samples, sentinels, calls, frameVars,
                   historyVars>>
    /\ UNCHANGED <<saved, decodeVars>>

\* BeamSearch(vocab, k): the metric kind is GreedySearch's default
NewBeam ==
    /\ pc = "idle"
    /\ constructed["beam"] = "none"
    /\ Construct("beam", "char")
    /\ \E k \in 1..MaxK : beamK' = k
    /\ UNCHANGED <<model, queue, produced, samples, sentinels, calls, frameVars,
                   historyVars>>
    /\ UNCHANGED <<saved, decodeVars>>

\* ---------------------------------------------------------------- producer
\* the producer threads fill the queue whenever it has room: before a search
\* call, at any point of a running one, and after it returned; search.py does
\* nothing that makes them wait
Put ==
    /\ Len(queue) < MaxQueue
    /\ produced < MaxBatches
    /\ \E n \in 1..MaxSamples :
        /\ queue' = Append(queue, Batch(samples, n))
        /\ samples' = samples + n
    /\ produced' = produced + 1
    /\ UNCHANGED <<strategyVars, model, sentinels, calls, frameVars, historyVars>>
    /\ UNCHANGED <<saved, decodeVars>>

PutSentinel ==
    /\ Len(queue) < MaxQueue
    /\ sentinels < MaxCalls
    /\ \E b \in Sentinels : queue' = Append(queue, b)
    /\ sentinels' = sentinels + 1
    /\ UNCHANGED <<strategyVars, model, produced, samples, calls, frameVars, historyVars>>
    /\ UNCHANGED <<saved, decodeVars>>

\* ------------------------------------------------------------------ search
\* no call is running: none was made yet, or the last one returned or raised
Returned == {"idle", "done", "failed"}

\* the caller enters strategy.search(model, queue, device, print_every)
CallSearch ==
    /\ pc \in Returned
    /\ calls < MaxCalls
    /\ \E s \in Strategies, p \in 1..MaxPrint, d \in Devices :
        /\ constructed[s] = "ok"
        /\ self' = s
        /\ print_every' = p
        /\ device' = d
        /\ pc' = IF s = "beam" THEN "beam" ELSE "search"
        /\ entry' = [len |-> Len(target_list[s]), decoder |-> model.decoder,
                      dequeued |-> dequeued, print_every |-> p]
        /\ beamCalls' = IF s = "beam" THEN beamCalls + 1 ELSE beamCalls
    /\ calls' = calls + 1
    /\ err' = NoErr
    /\ ret' = -1
    /\ UNCHANGED <<architecture, cer, total_sent_num, timestep, dequeued>>
    /\ taken' = <<>>
    /\ inferCalls' = <<>>
    /\ metricCalls' = <<>>
    /\ logs' = <<>>
    /\ installs' = <<>>
    /\ UNCHANGED <<strategyVars, model, queue, produced, samples, sentinels>>
    /\ UNCHANGED <<saved, decodeVars>>

Raise(e) ==
    /\ pc' = "failed"
    /\ err' = e

\* mutant: BeamSearch.search hands on a print_every of its own
DelegatedPrintEveryOne(p) == 1

\* the print_every BeamSearch.search hands to GreedySearch.search: its own argument
DelegatedPrintEvery(p) == p

\* BeamSearch.search, up to the call of GreedySearch.search
BeamSetDecoder ==
    /\ pc = "beam"
    /\ IF HasDecoder(model)
       THEN /\ model' = [model EXCEPT !.decoder = TopKDecoder(model.decoder, beamK)]
            /\ installs' = Append(installs,
                   [k |-> beamK, wraps |-> model.decoder,
                    into |-> SetDecoderTarget(model),
                    gets |-> Len(taken), infers |-> Len(inferCalls)])
            /\ pc' = "search"
            /\ err' = err
            /\ print_every' = DelegatedPrintEvery(print_every)
       ELSE /\ Raise("AttributeError")
            /\ UNCHANGED <<model, installs, print_every>>
    /\ UNCHANGED <<strategyVars, queue, produced, samples, sentinels, calls, self,
                   device, architecture, cer, total_sent_num,
                   timestep, ret, dequeued, entry, taken, inferCalls,
                   metricCalls, logs, beamCalls>>
    /\ UNCHANGED <<saved, decodeVars>>

\* mutant: cer starts at one (a 100% error rate)
InitialCerOne == 0 + 1

\* cer before the first batch
InitialCer == 0

\* GreedySearch.search, up to the loop
Dispatch ==
    /\ pc = "search"
    /\ cer' = InitialCer
    /\ total_sent_num' = 0
    /\ timestep' = 0
    /\ IF Identify(model) = "unsupported"
       THEN /\ Raise("ValueError: Unsupported architecture")
            /\ UNCHANGED <<architecture, model>>
       ELSE /\ architecture' = Identify(model)
            /\ model' = [model EXCEPT !.training = FALSE, !.device = device]
            /\ pc' = "loop"
            /\ err' = err
    /\ UNCHANGED <<strategyVars, queue, produced, samples, sentinels, calls, self,
                   print_every, device, ret, historyVars>>
    /\ UNCHANGED <<saved, decodeVars>>

\* mutant: the targets of a batch are recorded last sample first
TargetStringsReversed(b) ==
    [i \in 1..Len(b.targets) |-> LabelToString(b.targets[Len(b.targets) + 1 - i])]

\* the entries the loop appends for one batch
TargetStrings(b) == [i \in 1..Len(b.targets) |-> LabelToString(b.targets[i])]
PredictStrings(b, hyp) == [i \in 1..Len(b.targets) |-> LabelToString(hyp[i])]

\* mutant: the targets of a batch are recorded before inference is called
RecordedBeforeInferenceTargets(b) == TargetStrings(b)

\* what the loop has recorded of a batch when it calls inference: nothing yet
RecordedBeforeInference(b) == <<>>

\* mutant: the counter is incremented before the test
LogsAtAfterIncrement(ts, p) == (ts + 1) % p = 0

\* whether the loop logs at this timestep
LogsAt(ts, p) == ts % p = 0

\* mutant: the metric values are summed over the batches
NextCerSum(old, m) == old + m

\* the value the loop keeps after a metric call
NextCer(old, m) == m

\* the rest of the loop body, once inference returned hyp and the metric returned m
ProcessBatch(b, hyp, m) ==
    /\ target_list' = [target_list EXCEPT ![self] = @ \o TargetStrings(b)]
    /\ predict_list' = [predict_list EXCEPT ![self] = @ \o PredictStrings(b, hyp)]
    /\ metricCalls' = Append(metricCalls,
           [targets |-> DropFirst(b.targets), hypothesis |-> hyp, value |-> m])
    /\ cer' = NextCer(cer, m)
    /\ total_sent_num' = total_sent_num + Len(b.targets)
    /\ IF print_every = 0
       THEN /\ Raise("ZeroDivisionError")
            /\ UNCHANGED <<logs, timestep>>
       ELSE /\ logs' = IF LogsAt(timestep, print_every)
                       THEN Append(logs, [timestep |-> timestep, cer |-> NextCer(cer, m)])
                       ELSE logs
            /\ timestep' = timestep + 1
            /\ pc' = "loop"
            /\ err' = err

\* queue.get(): blocks while the queue is empty, takes the oldest item and
\* releases the queue, so that the producers run again before the loop goes on
QueueGet ==
    /\ pc = "loop"
    /\ queue /= <<>>
    /\ queue' = Tail(queue)
    /\ taken' = Append(taken, Head(queue))
    /\ dequeued' = dequeued + Len(Head(queue).inputs)
    /\ pc' = "got"
    /\ UNCHANGED <<strategyVars, model, produced, samples, sentinels, calls, self,
                   print_every, device, architecture, cer, total_sent_num,
                   timestep, err, ret, entry, inferCalls, metricCalls, logs,
                   installs, beamCalls>>
    /\ UNCHANGED <<saved, decodeVars>>

\* mutant: the decoder found at entry is put back when the call returns
DecoderOnReturnRestored(current, atEntry) == atEntry

\* the model's decoder when search returns: the one in place, nothing is put back
DecoderOnReturn(current, atEntry) == current

\* the rest of a pass of the loop, on the batch taken: it works on the call's
\* locals and the strategy's lists only, which no other thread touches
Iterate ==
    /\ pc = "got"
    /\ LET b == taken[Len(taken)]
           obj == InferenceReceiver(model)
           call == [receiver |-> obj, arch |-> architecture,
                    args |-> InferenceArgs(architecture, b, device),
                    decoder |-> model.decoder, batch |-> Len(taken),
                    raised |-> FALSE, hypothesis |-> <<>>]
       IN
       IF IsSentinel(b)
       THEN /\ pc' = "done"
            /\ ret' = cer
            /\ model' = [model EXCEPT
                   !.decoder = DecoderOnReturn(model.decoder, entry.decoder)]
            /\ UNCHANGED <<target_list, predict_list, cer, total_sent_num,
                           timestep, err, inferCalls, metricCalls, logs>>
       ELSE /\ ret' = ret
            /\ model' = model
            /\ IF ~HasInference(model, obj)
               THEN /\ Raise("AttributeError")
                    /\ UNCHANGED <<target_list, predict_list, cer, total_sent_num,
                                   timestep, inferCalls, metricCalls, logs>>
               ELSE \/ /\ Raise("InferenceError")
                       /\ inferCalls' = Append(inferCalls,
                              [call EXCEPT !.raised = TRUE])
                       /\ target_list' = [target_list EXCEPT
                              ![self] = @ \o RecordedBeforeInference(b)]
                       /\ UNCHANGED <<predict_list, cer, total_sent_num,
                                      timestep, metricCalls, logs>>
                    \/ \E hyp \in [1..Len(b.inputs) -> HypRows], m \in MetricVals :
                         /\ inferCalls' = Append(inferCalls,
                                [call EXCEPT !.hypothesis = hyp])
                         /\ ProcessBatch(b, hyp, m)
    /\ UNCHANGED <<constructed, metricArg, metric, beamK, queue, produced,
                   samples, sentinels, calls, self, print_every, device,
                   architecture, dequeued, entry, taken, installs, beamCalls>>
    /\ UNCHANGED <<saved, decodeVars>>

\* ------------------------------------------------------------- save_result
\* no file was written
NoFile == [written |-> FALSE, targets |-> <<>>, predictions |-> <<>>]

\* mutant: save_result empties a list once it is written
ListAfterSaveCleared(list) == <<>>

\* a list of the strategy after save_result: as before
ListAfterSave(list) == list

\* strategy.save_result(save_path): the two lists become the columns "targets"
\* and "predictions" of the csv file; columns of different lengths make the
\* DataFrame constructor raise and nothing is written
SaveResult ==
    /\ pc \in Returned
    /\ \E s \in Strategies :
        /\ constructed[s] = "ok"
        /\ saved' = IF Len(target_list[s]) = Len(predict_list[s])
                     THEN [written |-> TRUE, targets |-> target_list[s],
                           predictions |-> predict_list[s]]
                     ELSE saved
        /\ target_list' = [target_list EXCEPT ![s] = ListAfterSave(@)]
        /\ predict_list' = [predict_list EXCEPT ![s] = ListAfterSave(@)]
    /\ UNCHANGED <<constructed, metricArg, metric, beamK, model, queue, produced,
                   samples, sentinels, calls, frameVars, historyVars>>
    /\ UNCHANGED decodeVars

\* ----------------------------------------------------------- specification
Models ==
    {[wrapped |-> w, type |-> t, hasDecoder |-> h, decoder |-> <<>>,
      training |-> TRUE, device |-> "cpu"] :
        w \in BOOLEAN, t \in ModTypes, h \in BOOLEAN}

SearchInit ==
    /\ constructed = [s \in Strategies |-> "none"]
    /\ metricArg = [s \in Strategies |-> "none"]
    /\ metric = [s \in Strategies |-> "none"]
    /\ beamK = 0
    /\ target_list = [s \in Strategies |-> <<>>]
    /\ predict_list = [s \in Strategies |-> <<>>]
    /\ model \in {m \in Models : m.type \in Recognized => m.hasDecoder}
    /\ queue = <<>>
    /\ produced = 0
    /\ samples = 0
    /\ sentinels = 0
    /\ calls = 0
    /\ pc = "idle"
    /\ self = "none"
    /\ print_every = 0
    /\ device = "none"
    /\ architecture = "none"
    /\ cer = 0
    /\ total_sent_num = 0
    /\ timestep = 0
    /\ err = NoErr
    /\ ret = -1
    /\ dequeued = 0
    /\ entry = [len |-> 0, decoder |-> <<>>, dequeued |-> 0, print_every |-> 0]
    /\ taken = <<>>
    /\ inferCalls = <<>>
    /\ metricCalls = <<>>
    /\ logs = <<>>
    /\ installs = <<>>
    /\ beamCalls = 0
    /\ saved = NoFile

\* no decoding is looked at
DecodeIdle ==
    /\ scores = [p \in Prev |-> [t \in Tokens |-> -1]]
    /\ adapter = <<>>
    /\ beam = <<>>
    /\ hypothesis = <<>>
    /\ dpc = "idle"

Init == SearchInit /\ DecodeIdle

Next ==
    \/ NewGreedy
    \/ NewBeam
    \/ Put
    \/ PutSentinel
    \/ CallSearch
    \/ BeamSetDecoder
    \/ Dispatch
    \/ QueueGet
    \/ Iterate
    \/ SaveResult

Spec == Init /\ [][Next]_vars

\* ---------------------------------------------------------------- decoding
\* What model.inference does with the decoder installed in the model, for one
\* batch element: the original decoder decodes greedily, a top-k adapter keeps
\* a beam.  The model is its table of step log-probabilities: scores[prev][t]
\* is the log-probability of token t after token prev (SOS at the start).
ScoreVals == {-v : v \in 1..MaxScore}
ScoreTables == [Prev -> [Tokens -> ScoreVals]]

\* the tokens in id order
TokenSeq == <<2, 3, EOS>>

\* the token a sequence ends with
LastToken(seq) == IF seq = <<>> THEN SOS ELSE seq[Len(seq)]

\* the highest-probability token of a step, the lowest id among equals
ArgMax(dist) ==
    CHOOSE t \in Tokens :
        /\ \A u \in Tokens : dist[u] <= dist[t]
        /\ \A u \in Tokens : u < t => dist[u] < dist[t]

\* greedy decoding: the single highest-probability token at each step, until
\* the end-of-sequence token or the maximum length
RECURSIVE GreedyFrom(_, _)
GreedyFrom(tab, seq) ==
    IF Len(seq) >= MaxLen \/ LastToken(seq) = EOS
    THEN seq
    ELSE GreedyFrom(tab, Append(seq, ArgMax(tab[LastToken(seq)])))

GreedyDecode(tab) == GreedyFrom(tab, <<>>)

\* the beam width of the outermost adapter
Width(ad) == Head(ad)

\* the beam a top-k adapter starts from
InitialBeam == <<[seq |-> <<>>, score |-> 0, done |-> FALSE]>>

\* the extensions of one live candidate, in token order
ExtensionsOf(tab, c) ==
    [j \in 1..Len(TokenSeq) |->
        [seq |-> Append(c.seq, TokenSeq[j]),
         score |-> c.score + tab[LastToken(c.seq)][TokenSeq[j]],
         done |-> TokenSeq[j] = EOS]]

\* the completed candidates of the beam: carried forward unchanged, retained
Carried(bm) == SelectSeq(bm, LAMBDA c : c.done)

\* the live candidates of the beam, in beam order
Live(bm) == SelectSeq(bm, LAMBDA c : ~c.done)

RECURSIVE Concat(_)
Concat(ss) == IF ss = <<>> THEN <<>> ELSE Head(ss) \o Concat(Tail(ss))

\* all extensions of the live candidates, pooled across the beam slots in
\* generation order
Pool(tab, bm) ==
    Concat([i \in 1..Len(Live(bm)) |-> ExtensionsOf(tab, Live(bm)[i])])

\* the first candidate of the highest score
FirstBest(cs) ==
    CHOOSE i \in 1..Len(cs) :
        /\ \A j \in 1..Len(cs) : cs[j].score <= cs[i].score
        /\ \A j \in 1..(i - 1) : cs[j].score < cs[i].score

RemoveAt(cs, i) == SubSeq(cs, 1, i - 1) \o SubSeq(cs, i + 1, Len(cs))

\* the k best of the pool, best first, ties in generation order
RECURSIVE Prune(_, _)
Prune(cs, k) ==
    IF k = 0 \/ cs = <<>>
    THEN <<>>
    ELSE <<cs[FirstBest(cs)]>> \o Prune(RemoveAt(cs, FirstBest(cs)), k - 1)

\* the beam stops: every candidate completed, or the maximum length reached
BeamStopped(bm) ==
    \/ \A i \in 1..Len(bm) : bm[i].done
    \/ \E i \in 1..Len(bm) : ~bm[i].done /\ Len(bm[i].seq) >= MaxLen

\* the hypothesis emitted: the best completed candidate, else the best one
Output(bm) ==
    LET completed == SelectSeq(bm, LAMBDA c : c.done) IN
    IF completed /= <<>>
    THEN completed[FirstBest(completed)].seq
    ELSE bm[FirstBest(bm)].seq

\* inference through the original decoder
GreedyInference ==
    /\ dpc = "decoding"
    /\ adapter = <<>>
    /\ hypothesis' = GreedyDecode(scores)
    /\ dpc' = "emitted"
    /\ UNCHANGED <<scores, adapter, beam>>
    /\ UNCHANGED searchVars

\* one step of the top-k adapter: the completed candidates stay, the best
\* extensions of the live ones fill the places left of the k
TopKStep ==
    /\ dpc = "decoding"
    /\ adapter /= <<>>
    /\ ~BeamStopped(beam)
    /\ beam' = Carried(beam) \o
                Prune(Pool(scores, beam), Width(adapter) - Len(Carried(beam)))
    /\ UNCHANGED <<scores, adapter, hypothesis, dpc>>
    /\ UNCHANGED searchVars

\* the top-k adapter emits its hypothesis
TopKEmit ==
    /\ dpc = "decoding"
    /\ adapter /= <<>>
    /\ BeamStopped(beam)
    /\ hypothesis' = Output(beam)
    /\ dpc' = "emitted"
    /\ UNCHANGED <<scores, adapter, beam>>
    /\ UNCHANGED searchVars

\* one batch element is being decoded inside model.inference: the model is an
\* unwrapped ListenAttendSpell whose decoder is the original one (a GreedySearch
\* call) or the adapter BeamSearch.search installed (a BeamSearch call)
InitDecode ==
    \E s \in Strategies, k \in 1..MaxK :
        /\ constructed = [x \in Strategies |-> IF x = s THEN "ok" ELSE "none"]
        /\ metricArg = [x \in Strategies |-> IF x = s THEN "char" ELSE "none"]
        /\ metric = [x \in Strategies |->
                        IF x = s THEN MetricFor("char") ELSE "none"]
        /\ beamK = IF s = "beam" THEN k ELSE 0
        /\ target_list = [x \in Strategies |-> <<>>]
        /\ predict_list = [x \in Strategies |-> <<>>]
        /\ adapter = IF s = "beam" THEN TopKDecoder(<<>>, k) ELSE <<>>
        /\ model = [wrapped |-> FALSE, type |-> "ListenAttendSpell",
                    hasDecoder |-> TRUE, decoder |-> adapter,
                    training |-> FALSE, device |-> "cuda"]
        /\ queue = <<>>
        /\ produced = 1
        /\ samples = 1
        /\ sentinels = 0
        /\ calls = 1
        /\ pc = "got"
        /\ self = s
        /\ print_every = 1
        /\ device = "cuda"
        /\ architecture = Identify(model)
        /\ cer = InitialCer
        /\ total_sent_num = 0
        /\ timestep = 0
        /\ err = NoErr
        /\ ret = -1
        /\ dequeued = 1
        /\ entry = [len |-> 0, decoder |-> <<>>, dequeued |-> 0, print_every |-> 1]
        /\ beamCalls = IF s = "beam" THEN 1 ELSE 0
        /\ saved = NoFile
        /\ taken = <<Batch(0, 1)>>
        /\ inferCalls = <<>>
        /\ metricCalls = <<>>
        /\ logs = <<>>
        /\ installs = IF s = "beam"
                      THEN <<[k |-> k, wraps |-> <<>>, into |-> SetDecoderTarget(model),
                              gets |-> 0, infers |-> 0]>>
                      ELSE <<>>
        /\ scores \in ScoreTables
        /\ beam = InitialBeam
        /\ hypothesis = <<>>
        /\ dpc = "decoding"

NextDecode ==
    \/ GreedyInference
    \/ TopKStep
    \/ TopKEmit

SpecDecode == InitDecode /\ [][NextDecode]_vars

\* ----------------------------------------------------------------- helpers
RECURSIVE Flatten(_)
Flatten(ss) == IF ss = <<>> THEN <<>> ELSE Head(ss) \o Flatten(Tail(ss))

\* what the running (or last) call appended to a list of its strategy
Appended(list) == SubSeq(list, entry.len + 1, Len(list))

\* a search call was entered and has not been replaced by a later one
InCall == pc /= "idle"

UnsupportedErr == "ValueError: Unsupported architecture"

\* ------------------------------------------------------------------ claims

\* C1: for GreedySearch.search and BeamSearch.search alike, a model whose
\* (wrapped) module is none of the three known types makes the call fail with
\* the unsupported-architecture error, before any batch is taken from the
\* queue and with target_list and predict_list unchanged.
C1_UnsupportedArchitectureFirst ==
    (InCall /\ model.type \notin Recognized) =>
        /\ pc \in {"beam", "search", "failed"}
        /\ pc = "failed" => err = UnsupportedErr
        /\ taken = <<>>
        /\ Len(target_list[self]) = entry.len
        /\ Len(predict_list[self]) = entry.len

\* C2: a call whose first batch from the queue is the sentinel returns 0,
\* calls inference zero times and appends nothing to either list.
C2_SentinelOnly ==
    (InCall /\ taken /= <<>> /\ IsSentinel(taken[1])) =>
        /\ pc \in {"got", "done"}
        /\ pc = "done" => ret = 0
        /\ pc = "got" => ret = -1 /\ cer = 0
        /\ Len(taken) = 1
        /\ inferCalls = <<>>
        /\ metricCalls = <<>>
        /\ target_list[self] = SubSeq(target_list[self], 1, entry.len)
        /\ Len(target_list[self]) = entry.len
        /\ Len(predict_list[self]) = entry.len

C2_Witness ==
    /\ pc = "done"
    /\ Len(taken) = 1
    /\ queue /= <<>>
    /\ entry.len > 0

\* C3: when search has returned after N non-sentinel batches and the sentinel,
\* it appended one (target, prediction) pair per sample of the N batches, took
\* each batch once and in queue order (the utterances it took are consecutive
\* in the stream), and the pairs are in queue order, batch by batch and sample
\* by sample.
C3_PairsInQueueOrder ==
    pc = "done" =>
        LET n == Len(taken) - 1
            m == dequeued - entry.dequeued
        IN
        /\ \A i \in 1..n : ~IsSentinel(taken[i])
        /\ IsSentinel(taken[n + 1])
        /\ Flatten([i \in 1..n |-> taken[i].inputs])
             = [j \in 1..m |-> entry.dequeued + j]
        /\ Len(inferCalls) = n
        /\ \A i \in 1..n : inferCalls[i].batch = i /\ ~inferCalls[i].raised
        /\ Appended(target_list[self])
             = [j \in 1..m |-> LabelToString(TargetOf(entry.dequeued + j))]
        /\ Appended(predict_list[self])
             = Flatten([i \in 1..n |->
                   [r \in 1..Len(taken[i].inputs) |->
                       LabelToString(inferCalls[i].hypothesis[r])]])
        /\ Len(Appended(predict_list[self])) = m

C3_Witness ==
    /\ pc = "done"
    /\ Len(taken) = 3
    /\ Len(taken[1].targets) = 2
    /\ inferCalls[1].hypothesis[1] /= inferCalls[1].hypothesis[2]
    /\ Len(Appended(target_list[self])) = 3

\* C4: with print_every = P > 0 the loop logs at the batch with zero-based
\* index i exactly when i is a multiple of P: the logged indices are the
\* multiples of P among the batches processed, each logged once with the
\* metric of that batch, and the sentinel adds none.
C4_LogCadence ==
    (InCall /\ print_every > 0) =>
        LET done == Len(metricCalls)
            due == {i \in 0..(done - 1) : i % print_every = 0}
        IN
        /\ {logs[j].timestep : j \in 1..Len(logs)} = due
        /\ Len(logs) = Cardinality(due)
        /\ \A j \in 1..Len(logs) :
               /\ logs[j].timestep = (j - 1) * print_every
               /\ logs[j].cer = metricCalls[logs[j].timestep + 1].value
        /\ pc \in {"loop", "got", "done"} => timestep = done

C4_Witness ==
    /\ pc = "done"
    /\ print_every = 2
    /\ Len(metricCalls) = 2
    /\ Len(logs) = 1

\* C5: the value search returns is the one the metric returned for the last
\* batch before the sentinel, called on that batch's targets without the
\* leading start token and on the hypothesis as inference returned it;
\* earlier batches' values do not enter it.
C5_LastBatchMetric ==
    (pc = "done" /\ Len(taken) > 1) =>
        LET n == Len(taken) - 1 IN
        /\ Len(metricCalls) = n
        /\ ret = metricCalls[n].value
        /\ metricCalls[n].targets
             = [i \in 1..Len(taken[n].targets) |->
                   SubSeq(taken[n].targets[i], 2, Len(taken[n].targets[i]))]
        /\ metricCalls[n].hypothesis = inferCalls[n].hypothesis

C5_Witness ==
    /\ pc = "done"
    /\ Len(metricCalls) = 2
    /\ metricCalls[1].value = 1
    /\ metricCalls[2].value = 0
    /\ ret = 0

\* C6: a recognized model wrapped in DataParallel is searched as the module it
\* wraps: the module's architecture tag is selected and every non-sentinel
\* batch taken is decoded by an inference call on the wrapped module.
C6_WrappedAsUnwrapped ==
    (InCall /\ model.wrapped /\ model.type \in Recognized
        /\ pc \in {"loop", "done", "failed"}) =>
        /\ architecture = ArchitectureOf(model.type)
        /\ \A i \in 1..Len(taken) :
               ~IsSentinel(taken[i]) =>
                   \E j \in 1..Len(inferCalls) :
                       /\ inferCalls[j].batch = i
                       /\ IsUnderlying(model, inferCalls[j].receiver)

\* C7: a strategy exists only with a supported metric kind: 'char' gives the
\* character error rate, 'word' the word error rate, any other kind fails in
\* the constructor, and a search call (hence any read of the queue) runs only
\* on a strategy whose kind is supported.
C7_MetricKindAtConstruction ==
    /\ \A s \in Strategies :
           /\ constructed[s] = "ok" =>
                  \/ metricArg[s] = "char" /\ metric[s] = "CharacterErrorRate"
                  \/ metricArg[s] = "word" /\ metric[s] = "WordErrorRate"
           /\ (constructed[s] /= "none" /\ metricArg[s] \notin {"char", "word"}) =>
                  constructed[s] = "failed" /\ metric[s] = "none"
    /\ InCall => constructed[self] = "ok" /\ metricArg[self] \in {"char", "word"}

C7_Witness ==
    /\ constructed["greedy"] = "failed"
    /\ metricArg["greedy"] = "sent"
    /\ self = "beam"
    /\ Len(taken) > 1

\* C8: BeamSearch.search on a model that has a decoder installs a top-k
\* adapter of width k around the decoder the model had when the call started,
\* into the underlying module, exactly once, before any batch is taken from
\* the queue and before any inference call.
C8_AdapterInstalledOnceFirst ==
    (InCall /\ self = "beam" /\ HasDecoder(model)) =>
        IF pc = "beam"
        THEN /\ installs = <<>>
             /\ taken = <<>>
             /\ inferCalls = <<>>
             /\ model.decoder = entry.decoder
        ELSE /\ Len(installs) = 1
             /\ installs[1].k = beamK
             /\ installs[1].wraps = entry.decoder
             /\ IsUnderlying(model, installs[1].into)
             /\ installs[1].gets = 0
             /\ installs[1].infers = 0
             /\ model.decoder = <<beamK>> \o entry.decoder
             /\ \A j \in 1..Len(inferCalls) :
                    inferCalls[j].decoder = model.decoder

C8_Witness ==
    /\ self = "beam"
    /\ pc = "done"
    /\ Len(inferCalls) > 0
    /\ Len(entry.decoder) = 1

\* C9: a call on a recognized model whose inference calls all return comes
\* to return (it does not end otherwise), it returns at the first sentinel it
\* takes and takes nothing after it, and it is blocked while the queue is
\* empty.
C9_ReturnsAtFirstSentinel ==
    /\ (pc = "failed" /\ model.type \in Recognized) => err = "InferenceError"
    /\ pc = "done" =>
           /\ IsSentinel(taken[Len(taken)])
           /\ \A i \in 1..(Len(taken) - 1) : ~IsSentinel(taken[i])
    /\ (pc = "loop" /\ queue = <<>>) => ~ENABLED QueueGet

\* C10: beam search with k = 1 emits, for every score table of the bounded
\* set, token for token the sequence greedy decoding emits on the same table.
C10_BeamOneIsGreedy ==
    (dpc = "emitted" /\ self = "beam" /\ beamK = 1) =>
        hypothesis = GreedyDecode(scores)

C10_Witness ==
    /\ dpc = "emitted"
    /\ self = "beam"
    /\ beamK = 1
    /\ hypothesis = <<2, 3, EOS>>
    /\ scores[SOS][2] = scores[SOS][3]

\* the arguments the call convention of a tag hands to inference
Convention(tag, b, dev) ==
    CASE tag = "las" -> <<b.inputs, b.input_lengths, dev, -1>>
      [] tag = "transformer" -> <<b.inputs, b.input_lengths, "none", -1>>
      [] tag = "deepspeech2" -> <<b.inputs, b.input_lengths, "none", Len(Vocab)>>
      [] OTHER -> <<>>

\* C11: the architecture tag is fixed before the loop, and every non-sentinel
\* batch taken gets exactly one inference call, made with the convention of
\* that tag: LAS (inputs, input lengths, device), Transformer (inputs, input
\* lengths), DeepSpeech2 (inputs, input lengths, blank label = vocabulary
\* size); the tag of the type test and the tag of the call are the same.
C11_OneInferencePerBatchByTag ==
    (InCall /\ pc \in {"loop", "done", "failed"} /\ model.type \in Recognized) =>
        /\ architecture = ArchitectureOf(model.type)
        /\ \A i \in 1..Len(taken) :
               LET mine == {j \in 1..Len(inferCalls) : inferCalls[j].batch = i} IN
               IF IsSentinel(taken[i])
               THEN mine = {}
               ELSE /\ Cardinality(mine) = 1
                    /\ \A j \in mine :
                           /\ inferCalls[j].arch = ArchitectureOf(model.type)
                           /\ <<inferCalls[j].args.inputs,
                                inferCalls[j].args.input_lengths,
                                inferCalls[j].args.device,
                                inferCalls[j].args.blank_label>>
                                = Convention(ArchitectureOf(model.type), taken[i], device)

\* C12: the loop tells the sentinel by the number of inputs alone: a batch
\* without inputs ends the call whatever its targets hold, a batch with an
\* input never ends it, and inference is never called on a sentinel.
C12_SentinelByInputsAlone ==
    InCall =>
        /\ \A i \in 1..Len(taken) :
               IF Len(taken[i].inputs) = 0
               THEN /\ i = Len(taken)
                    /\ pc \in {"got", "done"}
                    /\ \A j \in 1..Len(inferCalls) : inferCalls[j].batch /= i
               ELSE i = Len(taken) => pc /= "done"
        /\ pc = "done" => taken /= <<>> /\ Len(taken[Len(taken)].inputs) = 0

C12_Witness ==
    /\ pc = "done"
    /\ Len(taken) = 2
    /\ taken[2].targets /= <<>>
    /\ Len(taken[1].inputs) = 1

\* the strings of the utterances first..last of the data set
UtteranceStrings(first, last) ==
    [j \in 1..(last - first + 1) |-> LabelToString(TargetOf(first + j - 1))]

\* C13: when inference fails on the j-th batch of a call, the call ends with
\* that failure after a single inference call on that batch, takes no further
\* batch, and the lists hold the pairs of batches 1..j-1 and nothing of
\* batch j.
C13_InferenceFailurePropagates ==
    (InCall /\ \E j \in 1..Len(inferCalls) : inferCalls[j].raised) =>
        LET j == Len(taken)
            before == dequeued - Len(taken[j].inputs)
        IN
        /\ pc = "failed"
        /\ err = "InferenceError"
        /\ Len(inferCalls) = j
        /\ \A i \in 1..j : inferCalls[i].batch = i /\ (inferCalls[i].raised <=> i = j)
        /\ ~ENABLED QueueGet
        /\ ~ENABLED Iterate
        /\ Len(metricCalls) = j - 1
        /\ Appended(target_list[self]) = UtteranceStrings(entry.dequeued + 1, before)
        /\ Appended(predict_list[self])
             = Flatten([i \in 1..(j - 1) |->
                   [r \in 1..Len(taken[i].inputs) |->
                       LabelToString(inferCalls[i].hypothesis[r])]])
        /\ Len(Appended(predict_list[self])) = before - entry.dequeued

C13_Witness ==
    /\ pc = "failed"
    /\ err = "InferenceError"
    /\ Len(taken) = 2
    /\ Len(taken[1].inputs) = 2
    /\ queue /= <<>>

\* list a is the beginning of list b
IsPrefix(a, b) == Len(a) <= Len(b) /\ SubSeq(b, 1, Len(a)) = a

\* C14: over the search and save_result calls on one strategy object the two
\* lists only grow at the end: no step removes or changes an entry, a step
\* that writes the file leaves both lists as they were, a later search adds
\* behind the entries of the earlier ones; and after every completely
\* processed batch the two lists are equally long.
C14_ListsAppendOnly ==
    /\ [][\A s \in Strategies :
            /\ IsPrefix(target_list[s], target_list'[s])
            /\ IsPrefix(predict_list[s], predict_list'[s])
            /\ (saved' /= saved \/ (pc \in Returned /\ pc' = pc /\ calls' = calls))
                  => /\ target_list'[s] = target_list[s]
                     /\ predict_list'[s] = predict_list[s]]_vars
    /\ [](\A s \in Strategies : Len(target_list[s]) = Len(predict_list[s]))

C14_Witness ==
    /\ saved.written
    /\ Len(saved.targets) = 1
    /\ calls = 2
    /\ entry.len = 1
    /\ Len(target_list[self]) = 2
    /\ Len(predict_list[self]) = 2

\* the batches of the call the loop has dealt with: all but the one just taken
Processed == IF pc = "got" THEN Len(taken) - 1 ELSE Len(taken)

\* what a caller and the collaborators see of a search call
CallTrace ==
    [targets |-> Appended(target_list[self]),
     predictions |-> Appended(predict_list[self]),
     inferences |-> Len(inferCalls),
     metric |-> metricCalls,
     logs |-> logs,
     cer |-> cer,
     timestep |-> timestep,
     status |-> IF pc = "got" THEN "loop" ELSE pc,
     err |-> err,
     ret |-> ret]

TraceAtLoopEntry ==
    [targets |-> <<>>, predictions |-> <<>>, inferences |-> 0, metric |-> <<>>,
     logs |-> <<>>, cer |-> 0, timestep |-> 0, status |-> "loop", err |-> NoErr,
     ret |-> -1]

\* GreedySearch.search replayed on what the call was given: the batches read,
\* the outcome of inference on each, the metric's values and the caller's
\* print_every; nothing in it depends on the strategy that runs the loop
RECURSIVE GreedyRun(_, _)
GreedyRun(acc, i) ==
    IF i > Processed THEN acc
    ELSE IF acc.status /= "loop" THEN [acc EXCEPT !.status = "overrun"]
    ELSE LET b == taken[i] IN
         IF Len(b.inputs) = 0
         THEN GreedyRun([acc EXCEPT !.status = "done", !.ret = acc.cer], i + 1)
         ELSE IF model.wrapped
         THEN GreedyRun([acc EXCEPT !.status = "failed", !.err = "AttributeError"], i + 1)
         ELSE IF i > Len(inferCalls)
         THEN [acc EXCEPT !.status = "stuck"]
         ELSE IF inferCalls[i].raised
         THEN GreedyRun([acc EXCEPT !.status = "failed", !.err = "InferenceError",
                                    !.inferences = @ + 1], i + 1)
         ELSE IF i > Len(metricCalls)
         THEN [acc EXCEPT !.status = "stuck"]
         ELSE LET hyp == inferCalls[i].hypothesis
                  v == metricCalls[i].value
              IN GreedyRun(
                  [targets |-> acc.targets \o
                       [r \in 1..Len(b.targets) |-> LabelToString(b.targets[r])],
                   predictions |-> acc.predictions \o
                       [r \in 1..Len(b.targets) |-> LabelToString(hyp[r])],
                   inferences |-> acc.inferences + 1,
                   metric |-> Append(acc.metric,
                       [targets |-> DropFirst(b.targets), hypothesis |-> hyp,
                        value |-> v]),
                   logs |-> IF acc.timestep % entry.print_every = 0
                            THEN Append(acc.logs, [timestep |-> acc.timestep, cer |-> v])
                            ELSE acc.logs,
                   cer |-> v,
                   timestep |-> acc.timestep + 1,
                   status |-> "loop",
                   err |-> NoErr,
                   ret |-> -1], i + 1)

\* C15: on a recognized model BeamSearch.search and GreedySearch.search do the
\* same with the same queue contents and per-batch hypotheses: the queue
\* reads, the end at the sentinel, the appends, the metric calls, the logs
\* and the returned value of a call of either strategy are those of
\* GreedySearch.search replayed on what the call was given; the calls differ
\* in the decoder only, which BeamSearch.search wraps once and
\* GreedySearch.search leaves as found.
C15_BeamRunsGreedyLoop ==
    (InCall /\ pc \in {"loop", "got", "done", "failed"} /\ model.type \in Recognized) =>
        /\ CallTrace = GreedyRun(TraceAtLoopEntry, 1)
        /\ architecture = ArchitectureOf(model.type)
        /\ \A j \in 1..Len(inferCalls) :
               /\ inferCalls[j].arch = architecture
               /\ inferCalls[j].args = InferenceArgs(architecture,
                                           taken[inferCalls[j].batch], device)
        /\ IF self = "beam"
           THEN /\ Len(installs) = 1
                /\ model.decoder = <<beamK>> \o entry.decoder
           ELSE /\ installs = <<>>
                /\ model.decoder = entry.decoder

C15_Witness ==
    /\ self = "beam"
    /\ pc = "done"
    /\ entry.print_every = 2
    /\ Len(taken) = 3
    /\ Len(logs) = 1
    /\ metricCalls[1].value /= metricCalls[2].value

\* the top-k adapter is decoding or has emitted
TopKActive == dpc /= "idle" /\ adapter /= <<>>

\* the beam is within the width the strategy was built with
BeamWithinK == TopKActive => (Len(beam) >= 1 /\ Len(beam) <= beamK)

\* a completed candidate ends with its only end-of-sequence token, a live one
\* holds none: nothing was ever appended behind an end-of-sequence token
NeverExtended ==
    TopKActive =>
        \A i \in 1..Len(beam) :
            /\ beam[i].done <=> (beam[i].seq /= <<>> /\ LastToken(beam[i].seq) = EOS)
            /\ \A q \in 1..(Len(beam[i].seq) - 1) : beam[i].seq[q] /= EOS
            /\ Len(beam[i].seq) <= MaxLen

\* the hypothesis emitted is the best completed candidate of the beam, or the
\* best candidate when none completed by the maximum length
BestEmitted ==
    (TopKActive /\ dpc = "emitted") =>
        LET completed == {i \in 1..Len(beam) : beam[i].done}
            among == IF completed /= {} THEN completed ELSE 1..Len(beam)
        IN
        /\ \E i \in among :
               /\ hypothesis = beam[i].seq
               /\ \A j \in among : beam[j].score <= beam[i].score
        /\ completed = {} => Len(hypothesis) = MaxLen

\* a completed candidate of the beam is in the beam after the step, as it was
KeptAsIs(c) == \E j \in 1..Len(beam') : beam'[j] = c

\* C16: during top-k decoding of one batch element the beam holds at most k
\* candidates at every step; a candidate that emitted the end-of-sequence
\* token stays in the beam as it is and is never extended; and the hypothesis
\* emitted is the best completed candidate, or the best candidate of any
\* status when none completed by the maximum length.
C16_CompletedAlwaysKept ==
    /\ []BeamWithinK
    /\ []NeverExtended
    /\ []BestEmitted
    /\ [][\A i \in 1..Len(beam) :
            (TopKActive /\ beam[i].done) => KeptAsIs(beam[i])]_vars

C16_Witness ==
    /\ TopKActive
    /\ beamK = 2
    /\ scores[SOS][3] = -1
    /\ scores[SOS][EOS] = -2
    /\ scores[3][3] = -1
    /\ scores[3][EOS] = -1
    /\ Len(beam) = 2
    /\ beam[1].seq = <<EOS>>
    /\ beam[1].done
    /\ beam[2].seq = <<3, 3>>
    /\ ~beam[2].done

\* n adapters of width k nested around the original decoder
Nested(n, k) == [i \in 1..n |-> k]

\* C17: BeamSearch.search never puts back the decoder it replaced: no step
\* takes an adapter off the model, whether a call returns or fails, each
\* BeamSearch.search call wraps what it finds, so that after n calls the
\* decoder is n adapters around the original one; and a GreedySearch.search
\* call on the model decodes through the decoder it finds, adapters included.
C17_DecoderNeverRestored ==
    /\ [][\/ model.decoder' = model.decoder
          \/ pc = "beam" /\ model.decoder' = <<beamK>> \o model.decoder]_vars
    /\ [](HasDecoder(model) =>
             model.decoder = Nested(IF pc = "beam" THEN beamCalls - 1 ELSE beamCalls,
                                    beamK))
    /\ []((InCall /\ self = "greedy") =>
             /\ model.decoder = entry.decoder
             /\ \A j \in 1..Len(inferCalls) : inferCalls[j].decoder = entry.decoder)

C17_Witness ==
    /\ self = "greedy"
    /\ pc = "done"
    /\ beamCalls = 1
    /\ Len(inferCalls) > 0
    /\ inferCalls[1].decoder = <<beamK>>
    /\ model.decoder = <<beamK>>

====
